---- MODULE Spec2Model ----
(***************************************************************************)
(* Model of the notifiers push relay: the persistent heartbeat Schedule    *)
(* (src/src/schedule.rs), the notifier worker loop (src/src/notifier.rs)   *)
(* and the HTTP handlers (src/src/server.rs).                              *)
(*                                                                         *)
(* Two specifications share the Schedule primitives:                       *)
(*   Spec     concurrent callers of the Schedule API with arbitrary        *)
(*            timestamps, plus flush, close/reopen and crash;              *)
(*   SpecSys  the running program: notifier workers, POST /register and    *)
(*            POST /notify handlers, a wall clock, crash and restart.      *)
(***************************************************************************)
EXTENDS Integers, Sequences, FiniteSets, Bags, TLC

(***************************************************************************)
(* Bounds of the model.                                                    *)
(***************************************************************************)
\* Largest number of heap entries (present plus about to be pushed).
MaxHeap == 3
\* First wall-clock second of the model; chosen so that timestamps cross a
\* byte boundary of the big-endian encoding (255 -> 256).
ClockStart == 255
\* Timestamps a Schedule caller may pass are ClockStart .. ClockStart+TsSpan.
TsSpan == 1
\* Number of storage errors the persistent map may raise.
MaxFaults == 1

(***************************************************************************)
(* Token strings.  A string is a sequence of atoms; an atom is a prefix    *)
(* literal of the token grammar or a single character.                     *)
(***************************************************************************)
NoToken == <<>>
TokFoo == <<"F">>
TokBar == <<"B">>

\* Tokens used by callers of the Schedule API.
ApiTokens == {TokFoo, TokBar}

\* First byte of an atom: strings are ordered bytewise (String: Ord).
Rank(a) ==
    CASE a = "!" -> 33
      [] a = ":" -> 58
      [] a = "B" -> 66
      [] a = "F" -> 70
      [] a = "fcm-" -> 102
      [] a = "openpgp:" -> 111
      [] a = "p" -> 112
      [] a = "sandbox:" -> 115
      [] a = "ubports-" -> 117
      [] OTHER -> 0

RECURSIVE StrLess(_, _)
StrLess(a, b) ==
    IF b = <<>> THEN FALSE
    ELSE IF a = <<>> THEN TRUE
    ELSE IF Rank(Head(a)) # Rank(Head(b)) THEN Rank(Head(a)) < Rank(Head(b))
    ELSE StrLess(Tail(a), Tail(b))

(***************************************************************************)
(* u64 <-> 8 big-endian bytes.                                             *)
(***************************************************************************)
RECURSIVE ShiftRight8(_, _)
ShiftRight8(n, k) == IF k = 0 THEN n ELSE ShiftRight8(n \div 256, k - 1)

\* u64::to_be_bytes
ToBeBytes(n) == [i \in 1..8 |-> ShiftRight8(n, 8 - i) % 256]

\* Faulty variant: the bytes read least significant first.
RECURSIVE FromLeBytes(_)
FromLeBytes(b) ==
    IF b = <<>> THEN 0 ELSE (FromLeBytes(Tail(b)) * 256 + Head(b)) % 65536

RECURSIVE FromBeBytes(_)
\* u64::from_be_bytes
FromBeBytes(b) ==
    IF b = <<>> THEN 0
    ELSE FromBeBytes(SubSeq(b, 1, Len(b) - 1)) * 256 + b[Len(b)]

\* Faulty variant of StoredTimestamp.
StoredTimestampLe(value) ==
    IF Len(value) >= 8 THEN FromLeBytes(SubSeq(value, 1, 8)) ELSE 0

\* Schedule::new: the timestamp read back from a stored value.
StoredTimestamp(value) ==
    IF Len(value) >= 8 THEN FromBeBytes(SubSeq(value, 1, 8)) ELSE 0

(***************************************************************************)
(* The persistent map (sled::Db) as a function token -> bytes.             *)
(***************************************************************************)
EmptyDb == [k \in {} |-> <<>>]

\* Faulty variant: an existing key keeps its old value.
DbInsertIfAbsent(m, k, v) ==
    [x \in (DOMAIN m) \cup {k} |-> IF x \in DOMAIN m THEN m[x] ELSE v]

DbInsert(m, k, v) == [x \in (DOMAIN m) \cup {k} |-> IF x = k THEN v ELSE m[x]]

\* Faulty variant: the key stays.
DbRemoveNothing(m, k) == m

DbRemove(m, k) == [x \in (DOMAIN m) \ {k} |-> m[x]]

(***************************************************************************)
(* The heap: BinaryHeap<(Reverse<u64>, String)> as a bag of <<ts, token>>. *)
(***************************************************************************)
HeapLen(h) == BagCardinality(h)

HeapPush(h, e) == h (+) SetToBag({e})

\* Faulty variant: the order without Reverse, newest first.
GreaterNewestFirst(e, f) == \/ e[1] > f[1]
                            \/ e[1] = f[1] /\ StrLess(f[2], e[2])

\* (Reverse(ts1), tok1) > (Reverse(ts2), tok2) in the tuple order.
Greater(e, f) == \/ e[1] < f[1]
                 \/ e[1] = f[1] /\ StrLess(f[2], e[2])

\* The element BinaryHeap::pop returns: the greatest one.
HeapTop(h) ==
    CHOOSE e \in BagToSet(h) : \A f \in BagToSet(h) : f = e \/ Greater(e, f)

HeapRemoveTop(h) == h (-) SetToBag({HeapTop(h)})

\* Faulty variant: the heap starts empty, whatever the map holds.
HeapFromDbNothing(m) == EmptyBag

\* Schedule::new: one heap entry per stored key.
HeapFromDb(m) == SetToBag({<<StoredTimestamp(m[k]), k>> : k \in DOMAIN m})

\* Faulty variant: only the presence of the key is checked.
EntryValidKeyOnly(m, e) == e[2] \in DOMAIN m

\* The check of Schedule::pop: the entry matches what the map stores.
EntryValid(m, e) == e[2] \in DOMAIN m /\ ToBeBytes(e[1]) = m[e[2]]


\* The outcome of one iteration of the loop of Schedule::pop on heap h and
\* map m: "none" (heap empty), "discard" (stale entry dropped, loop again)
\* or "some" (entry returned).
PopResult(h, m) ==
    IF HeapLen(h) = 0 THEN "none"
    ELSE IF EntryValid(m, HeapTop(h)) THEN "some"
    ELSE "discard"

\* The entries that successive calls of Schedule::pop return from heap h
\* and map m until the first None, when nothing is inserted meanwhile.
RECURSIVE PopAll(_, _)
PopAll(h, m) ==
    CASE PopResult(h, m) = "none" -> << >>
      [] PopResult(h, m) = "some" -> <<HeapTop(h)>> \o PopAll(HeapRemoveTop(h), m)
      [] OTHER -> PopAll(HeapRemoveTop(h), m)

\* Faulty variant: the flush writes nothing.
FlushedNothing(d, m) == d

\* What Schedule::flush leaves on stable storage, given the storage d and
\* the map m.
Flushed(d, m) == m

(***************************************************************************)
(* State.                                                                  *)
(***************************************************************************)
VARIABLES
    now,      \* wall clock, seconds since the epoch
    db,       \* Schedule.db as the process sees it
    disk,     \* what of the map has reached stable storage
    heap,     \* Schedule.heap
    holder,   \* the thread holding the heap mutex, or "none"
    phase,    \* "open": a Schedule exists; "closed": dropped or crashed
    th,       \* per thread: position and locals
    faults,   \* storage errors raised so far
    metrics,  \* the counters of Metrics
    served,   \* HTTP responses given since the process started, by kind
    last,     \* the step that was just taken
    hist,     \* per token: the last two map operations since open
    popped,   \* tokens whose entry a pop returned, or lost to a failed map
              \* read, and that were not inserted or removed since
    dirty,    \* a map write happened after the last flush
    acked,    \* tokens registered with a 200 and not removed since
    sent      \* per token: the time of its last heartbeat send, if any

vars == <<now, db, disk, heap, holder, phase, th, faults, metrics, served,
          last, hist, popped, dirty, acked, sent>>

schedVars == <<db, disk, heap, holder, faults, hist, popped, dirty>>

Idle == [pc |-> "idle", tok |-> NoToken, ts |-> 0, wake |-> 0, out |-> "none"]

Event(op, tok, ts, n) == [op |-> op, tok |-> tok, ts |-> ts, n |-> n]

\* A step the properties need no record of.
Step == Event("step", NoToken, 0, 0)

NoMetrics ==
    [direct_notifications |-> 0, fcm_notifications |-> 0,
     ubports_notifications |-> 0, heartbeat_notifications |-> 0,
     heartbeat_registrations |-> 0, heartbeat_tokens |-> 0,
     openpgp_decryption_failures |-> 0]

\* requests counts the requests accepted, the other fields the responses.
NoResponses == [requests |-> 0, register_200 |-> 0, register_500 |-> 0,
                notify_200 |-> 0, notify_410 |-> 0, notify_500 |-> 0]

\* Faulty variant: the counter is not incremented.
CountNothing(f, field) == f

\* The counters are unsigned integers that wrap around (64 bits in the
\* program); the model wraps them at CounterRange.
CounterRange == 8

\* f with the counter `field` incremented.
Count(f, field) ==
    IF field = "none" THEN f ELSE [f EXCEPT ![field] = (@ + 1) % CounterRange]

\* The process is up, for the first time or after a restart.
Up == phase \in {"open", "reopened"}

\* Threads that wrote the map in insert_token and have not pushed yet.
Pushing == {x \in DOMAIN th : th[x].pc = "push"}

\* Room for one more heap entry (bounds the model).
HeapRoom == HeapLen(heap) + Cardinality(Pushing) < MaxHeap

(***************************************************************************)
(* History bookkeeping (not program state).                                *)
(***************************************************************************)
\* Per token: last is the timestamp of the latest insert, -2 or -3 after a
\* remove, -1 when nothing happened since the map was opened; older is the timestamp
\* a of insert(t, a); insert(t, b) with a < b and no remove since, else -1.
NoHist == [last |-> -1, older |-> -1]

\* The map operation on token t: x >= 0 inserts timestamp x, x < 0 removes.
HistAdd(h, t, x) ==
    IF t \in DOMAIN h
    THEN [h EXCEPT ![t] =
            [last |-> x,
             older |-> IF x >= 0 /\ @.last >= 0 /\ @.last < x THEN @.last ELSE -1]]
    ELSE h

HistLast(t) == IF t \in DOMAIN hist THEN hist[t].last ELSE -1

HistOlder(t) == IF t \in DOMAIN hist THEN hist[t].older ELSE -1

(***************************************************************************)
(* The steps of the Schedule operations.  Each is atomic with respect to   *)
(* the other threads; ok = FALSE is a storage error of the map.            *)
(***************************************************************************)
CanFail(ok) == ok \/ faults < MaxFaults

\* Schedule::insert_token, first half: self.db.insert(token, be(now))?
InsertWrite(t, ts, ok) ==
    /\ CanFail(ok)
    /\ db' = IF ok THEN DbInsert(db, t, ToBeBytes(ts)) ELSE db
    /\ hist' = IF ok THEN HistAdd(hist, t, ts) ELSE hist
    /\ popped' = IF ok THEN popped \ {t} ELSE popped
    /\ dirty' = (dirty \/ ok)
    /\ faults' = IF ok THEN faults ELSE faults + 1
    /\ UNCHANGED <<disk, heap, holder>>

\* Schedule::insert_token, second half: lock the heap and push.
InsertPush(t, ts) ==
    /\ holder = "none"
    /\ heap' = HeapPush(heap, <<ts, t>>)
    /\ UNCHANGED <<db, disk, holder, faults, hist, popped, dirty>>

\* Schedule::remove_token; the history notes the remove as x: -2, or -3
\* when a worker removes the token after a ResponseError of APNS.
RemoveTokenAs(t, ok, x) ==
    /\ CanFail(ok)
    /\ db' = IF ok THEN DbRemove(db, t) ELSE db
    /\ hist' = IF ok THEN HistAdd(hist, t, x) ELSE hist
    /\ popped' = IF ok THEN popped \ {t} ELSE popped
    /\ dirty' = (dirty \/ ok)
    /\ faults' = IF ok THEN faults ELSE faults + 1
    /\ UNCHANGED <<disk, heap, holder>>

\* Schedule::remove_token
RemoveToken(t, ok) == RemoveTokenAs(t, ok, -2)

\* The outcome of the next iteration of pop's loop in the current state;
\* "err" when self.db.get fails.
PopOutcome(ok) ==
    IF HeapLen(heap) > 0 /\ ~ok THEN "err" ELSE PopResult(heap, db)

\* Schedule::pop: one iteration of the loop by thread x, which takes the
\* heap mutex on the first iteration and keeps it until pop returns.
PopIter(x, ok) ==
    /\ holder \in {"none", x}
    /\ ok \/ (HeapLen(heap) > 0 /\ faults < MaxFaults)
    /\ LET r == PopOutcome(ok) IN
       /\ heap' = IF r = "none" THEN heap ELSE HeapRemoveTop(heap)
       /\ holder' = IF r = "discard" THEN x ELSE "none"
       /\ popped' = IF r \in {"some", "err"}
                    THEN popped \cup {HeapTop(heap)[2]} ELSE popped
       /\ faults' = IF r = "err" THEN faults + 1 ELSE faults
       /\ last' = IF r = "none" THEN Event("pop_none", NoToken, 0, 0)
                  ELSE Event("pop_" \o r, HeapTop(heap)[2], HeapTop(heap)[1],
                             HeapLen(heap))
    /\ UNCHANGED <<db, disk, hist, dirty>>

\* Schedule::token_count
TokenCount == HeapLen(heap)

\* Schedule::flush
Flush(ok) ==
    /\ CanFail(ok)
    /\ disk' = IF ok THEN Flushed(disk, db) ELSE disk
    /\ dirty' = IF ok THEN FALSE ELSE dirty
    /\ faults' = IF ok THEN faults ELSE faults + 1
    /\ UNCHANGED <<db, heap, holder, hist, popped>>

\* Schedule::new: open the map and rebuild the heap from it.
ScheduleNew ==
    /\ db' = disk
    /\ heap' = HeapFromDb(disk)
    /\ holder' = "none"
    /\ hist' = [t \in DOMAIN hist |-> NoHist]
    /\ popped' = {}
    /\ dirty' = FALSE
    /\ UNCHANGED <<disk, faults>>

(***************************************************************************)
(* Spec: concurrent callers of the Schedule API.                           *)
(***************************************************************************)
Callers == {"c1", "c2"}

ApiTimestamps == ClockStart .. (ClockStart + TsSpan)

sysVars == <<now, metrics, served, acked, sent>>

Init ==
    /\ now = ClockStart
    /\ db = EmptyDb
    /\ disk = EmptyDb
    /\ heap = EmptyBag
    /\ holder = "none"
    /\ phase = "open"
    /\ th = [c \in Callers |-> Idle]
    /\ faults = 0
    /\ metrics = NoMetrics
    /\ served = NoResponses
    /\ last = Step
    /\ hist = [t \in ApiTokens |-> NoHist]
    /\ popped = {}
    /\ dirty = FALSE
    /\ acked = {}
    /\ sent = [t \in {} |-> 0]

Ready(c) == phase = "open" /\ th[c].pc = "idle"

\* insert_token(t, ts): the write of the map.
ApiInsert(c, t, ts) ==
    /\ Ready(c)
    /\ HeapRoom
    /\ \E ok \in BOOLEAN :
        /\ InsertWrite(t, ts, ok)
        /\ th' = [th EXCEPT ![c] = IF ok THEN [Idle EXCEPT !.pc = "push", !.tok = t, !.ts = ts]
                                  ELSE Idle]
        /\ last' = Step
    /\ UNCHANGED <<phase, sysVars>>

\* insert_token(t, ts): the push on the heap.
ApiPush(c) ==
    /\ phase = "open"
    /\ th[c].pc = "push"
    /\ InsertPush(th[c].tok, th[c].ts)
    /\ th' = [th EXCEPT ![c] = Idle]
    /\ last' = Step
    /\ UNCHANGED <<phase, sysVars>>

ApiRemove(c, t) ==
    /\ Ready(c)
    /\ \E ok \in BOOLEAN :
        /\ RemoveToken(t, ok)
        /\ last' = Step
    /\ UNCHANGED <<th, phase, sysVars>>

\* pop(): one iteration of its loop.
ApiPop(c) ==
    /\ phase = "open"
    /\ th[c].pc \in {"idle", "pop"}
    /\ \E ok \in BOOLEAN :
        /\ PopIter(c, ok)
        /\ th' = [th EXCEPT ![c] = IF PopOutcome(ok) = "discard"
                                  THEN [Idle EXCEPT !.pc = "pop"] ELSE Idle]
    /\ UNCHANGED <<phase, sysVars>>

ApiCount(c) ==
    /\ Ready(c)
    /\ holder = "none"
    /\ last' = Event("count", NoToken, 0, TokenCount)
    /\ UNCHANGED <<th, phase, schedVars, sysVars>>

ApiFlush(c) ==
    /\ Ready(c)
    /\ \E ok \in BOOLEAN :
        /\ Flush(ok)
        /\ last' = Step
    /\ UNCHANGED <<th, phase, sysVars>>

\* sled writes its log to disk in the background (flush_every_ms).
BackgroundFlush ==
    /\ Up
    /\ disk # db
    /\ disk' = Flushed(disk, db)
    /\ dirty' = FALSE
    /\ last' = Step
    /\ UNCHANGED <<db, heap, holder, faults, hist, popped, th, phase, sysVars>>

\* drop(schedule) with no operation in progress.  The variable db keeps the
\* contents the map had when it was closed, heap the dropped heap.
ApiClose ==
    /\ phase = "open"
    /\ \A c \in DOMAIN th : th[c].pc = "idle"
    /\ phase' = "closed"
    /\ last' = Event(IF dirty THEN "close_dirty" ELSE "close", NoToken, 0,
                     HeapLen(heap))
    /\ UNCHANGED <<th, schedVars, sysVars>>

\* The process dies at an arbitrary point: every operation in progress is
\* abandoned and only the flushed part of the map survives.
ApiCrash ==
    /\ phase = "open"
    /\ dirty
    /\ phase' = "closed"
    /\ th' = [c \in DOMAIN th |-> Idle]
    /\ holder' = "none"
    /\ last' = Event("crash", NoToken, 0, HeapLen(heap))
    /\ UNCHANGED <<db, disk, heap, faults, hist, popped, dirty, sysVars>>

\* Schedule::new(db_path) on the stored map.
ApiOpen ==
    /\ phase = "closed"
    /\ ScheduleNew
    /\ phase' = "open"
    /\ last' = Event("open_after_" \o last.op, NoToken, 0, last.n)
    /\ UNCHANGED <<th, sysVars>>

Next ==
    \/ \E c \in DOMAIN th, t \in ApiTokens, ts \in ApiTimestamps : ApiInsert(c, t, ts)
    \/ \E c \in DOMAIN th : ApiPush(c)
    \/ \E c \in DOMAIN th, t \in ApiTokens : ApiRemove(c, t)
    \/ \E c \in DOMAIN th : ApiPop(c)
    \/ \E c \in DOMAIN th : ApiCount(c)

Spec == Init /\ [][Next]_vars

(***************************************************************************)
(* SpecDurable: one caller of the Schedule API, stable storage, close,     *)
(* crash and reopen.                                                       *)
(***************************************************************************)
InitDurable ==
    /\ now = ClockStart
    /\ db = EmptyDb
    /\ disk = EmptyDb
    /\ heap = EmptyBag
    /\ holder = "none"
    /\ phase = "open"
    /\ th = [c \in {"c1"} |-> Idle]
    /\ faults = 0
    /\ metrics = NoMetrics
    /\ served = NoResponses
    /\ last = Step
    /\ hist = [t \in ApiTokens |-> NoHist]
    /\ popped = {}
    /\ dirty = FALSE
    /\ acked = {}
    /\ sent = [t \in {} |-> 0]

NextDurable ==
    \/ Next
    \/ \E c \in DOMAIN th : ApiFlush(c)
    \/ BackgroundFlush
    \/ ApiClose
    \/ ApiCrash
    \/ ApiOpen

SpecDurable == InitDurable /\ [][NextDurable]_vars


(***************************************************************************)
(* Tokens of the running program.                                          *)
(***************************************************************************)
\* An FCM token, "fcm-p:B".
TokFcm == <<"fcm-", "p", ":", "B">>

\* The position of the first ":" of s, or 0.
ColonAt(s) ==
    IF \E i \in 1..Len(s) : s[i] = ":"
    THEN CHOOSE i \in 1..Len(s) : s[i] = ":" /\ \A j \in 1..(i - 1) : s[j] # ":"
    ELSE 0

\* Faulty variant: the prefix "ubports-" is not recognised.
ParseTokenNoUbports(s) ==
    IF Len(s) > 0 /\ Head(s) = "sandbox:"
    THEN [kind |-> "apns_sandbox", package |-> <<>>, token |-> Tail(s)]
    ELSE [kind |-> "apns_production", package |-> <<>>, token |-> s]

\* NotificationToken::from_str
ParseToken(s) ==
    IF Len(s) > 0 /\ Head(s) = "fcm-"
    THEN IF ColonAt(Tail(s)) > 0
         THEN [kind |-> "fcm",
               package |-> SubSeq(Tail(s), 1, ColonAt(Tail(s)) - 1),
               token |-> SubSeq(Tail(s), ColonAt(Tail(s)) + 1, Len(Tail(s)))]
         ELSE [kind |-> "error", package |-> <<>>, token |-> <<>>]
    ELSE IF Len(s) > 0 /\ Head(s) = "ubports-"
    THEN [kind |-> "ubports", package |-> <<>>, token |-> Tail(s)]
    ELSE IF Len(s) > 0 /\ Head(s) = "sandbox:"
    THEN [kind |-> "apns_sandbox", package |-> <<>>, token |-> Tail(s)]
    ELSE [kind |-> "apns_production", package |-> <<>>, token |-> s]

\* c.is_ascii_alphanumeric() || c == '_' || c == ':' || c == '-' for all c
TokenCharsOk(s) == \A i \in 1..Len(s) : s[i] \in {"B", "F", "p", "_", ":", "-"}

RECURSIVE TrimStart(_)
TrimStart(s) == IF Len(s) > 0 /\ Head(s) = " " THEN TrimStart(Tail(s)) ELSE s

RECURSIVE TrimEnd(_)
TrimEnd(s) ==
    IF Len(s) > 0 /\ s[Len(s)] = " " THEN TrimEnd(SubSeq(s, 1, Len(s) - 1)) ELSE s

\* PgpDecryptor::decrypt.  A message is "enc" followed by the padded
\* plaintext when one of the keys of the ring decrypts it; anything else
\* fails (bad base64, malformed message, no key).
Decrypt(message) ==
    IF Len(message) > 0 /\ Head(message) = "enc"
    THEN [ok |-> TRUE, token |-> TrimEnd(TrimStart(Tail(message)))]
    ELSE [ok |-> FALSE, token |-> <<>>]

\* device_token.strip_prefix("openpgp:") and decryption, as both handlers
\* do it first.
Decrypted(token) ==
    IF Len(token) > 0 /\ Head(token) = "openpgp:"
    THEN Decrypt(Tail(token))
    ELSE [ok |-> TRUE, token |-> token]

(***************************************************************************)
(* The notifier loop (notifier::start and wakeup).                         *)
(***************************************************************************)
\* The heartbeat interval (--interval), in seconds.
Interval == 2
\* The pause of a worker that found no token or failed, in seconds.
IdlePause == 60
\* Number of times the clock advances.
MaxTicks == 2
\* Number of HTTP requests.
MaxRequests == 2

Workers == {"w1", "w2"}
Handlers == {"h1"}

AtTop == [Idle EXCEPT !.pc = "top"]

Pause == [Idle EXCEPT !.pc = "pause", !.wake = now + IdlePause]

\* Faulty variant: the sleep is always one interval.
DelayFromNow(ts, n, iv) == iv

\* notifier::start: the time to sleep for an entry popped with timestamp ts
\* at time n: min(ts, n) + interval - n, or zero when that is in the past.
Delay(ts, n, iv) ==
    LET timestamp == IF ts < n THEN ts ELSE n
        wakeAt == timestamp + iv
    IN  IF wakeAt > n THEN wakeAt - n ELSE 0

\* A worker that popped a token and has not inserted or removed it yet.
InFlight(x) == x \in Workers /\ th[x].pc \in {"sleep", "send"}

\* Bookkeeping: an insert of token t is noted by the workers in flight on t.
NoteInsert(f, t) ==
    [x \in DOMAIN f |->
        IF x \in Workers /\ f[x].pc \in {"sleep", "send"} /\ f[x].tok = t
        THEN [f[x] EXCEPT !.out = "reinserted"] ELSE f[x]]

Running(x) == Up /\ x \in DOMAIN th

\* Loop head and Schedule::pop: the gauge is set, then one iteration of pop
\* per step; a popped entry sends the worker to sleep until it is due.
WorkerPop(w) ==
    /\ Running(w)
    /\ th[w].pc \in {"top", "pop"}
    /\ \E ok \in BOOLEAN :
        /\ PopIter(w, ok)
        /\ LET r == PopOutcome(ok)
               e == HeapTop(heap)
           IN th' = [th EXCEPT ![w] =
                CASE r = "none" -> Pause
                  [] r = "discard" -> [Idle EXCEPT !.pc = "pop"]
                  [] r = "err" -> [Idle EXCEPT !.pc = "dead"]
                  [] OTHER -> [Idle EXCEPT !.pc = "sleep", !.tok = e[2], !.ts = e[1],
                                           !.wake = now + Delay(e[1], now, Interval)]]
    /\ metrics' = IF th[w].pc = "top"
                  THEN [metrics EXCEPT !.heartbeat_tokens = TokenCount] ELSE metrics
    /\ UNCHANGED <<now, phase, served, acked, sent>>

\* The sleep is over: wakeup parses the token; a token that does not parse
\* is an error, a token that is not an APNS token is removed, an APNS token
\* is sent a silent notification.
WorkerWake(w) ==
    /\ Running(w)
    /\ th[w].pc = "sleep"
    /\ now >= th[w].wake
    /\ LET t == th[w].tok
           kind == ParseToken(t).kind
       IN IF kind = "error"
          THEN /\ th' = [th EXCEPT ![w] = Pause]
               /\ last' = Event("worker_parse_error", t, 0, 0)
               /\ UNCHANGED <<schedVars, sent, acked>>
          ELSE IF kind \in {"fcm", "ubports"}
          THEN /\ \E ok \in BOOLEAN :
                    /\ RemoveToken(t, ok)
                    /\ th' = [th EXCEPT ![w] = IF ok THEN AtTop ELSE Pause]
                    /\ acked' = IF ok THEN acked \ {t} ELSE acked
                    /\ last' = Event("worker_remove", t, 0, IF ok THEN 1 ELSE 0)
               /\ UNCHANGED sent
          ELSE /\ th' = [th EXCEPT ![w].pc = "send"]
               /\ sent' = [x \in (DOMAIN sent) \cup {t} |-> IF x = t THEN now ELSE sent[x]]
               /\ last' = Event("send", t, IF t \in DOMAIN sent THEN sent[t] ELSE -1, now)
               /\ UNCHANGED <<schedVars, acked>>
    /\ UNCHANGED <<now, phase, metrics, served>>

\* What client.send(payload).await can yield.
ApnsOutcomes == {"ok_200", "ok_other", "response_error", "error"}

\* The match on the outcome of the send in wakeup.
WorkerSent(w, outcome) ==
    /\ Running(w)
    /\ th[w].pc = "send"
    /\ LET t == th[w].tok IN
       CASE outcome \in {"ok_200", "error"} ->
                /\ HeapRoom
                /\ \E ok \in BOOLEAN :
                    /\ InsertWrite(t, now, ok)
                    /\ th' = IF ok
                             THEN NoteInsert([th EXCEPT ![w] =
                                    [Idle EXCEPT !.pc = "push", !.tok = t, !.ts = now,
                                                 !.out = outcome]], t)
                             ELSE [th EXCEPT ![w] = Pause]
                    /\ last' = Event("worker_insert_" \o outcome, t, now,
                                     IF ok THEN 1 ELSE 0)
                /\ UNCHANGED acked
         [] outcome = "ok_other" ->
                /\ th' = [th EXCEPT ![w] = Pause]
                /\ last' = Event("worker_bail", t, now, 0)
                /\ UNCHANGED <<schedVars, acked>>
         [] OTHER ->
                /\ \E ok \in BOOLEAN :
                    /\ RemoveTokenAs(t, ok, -3)
                    /\ th' = [th EXCEPT ![w] = IF ok THEN AtTop ELSE Pause]
                    /\ acked' = IF ok THEN acked \ {t} ELSE acked
                    /\ last' = Event("worker_drop", t, now, IF ok THEN 1 ELSE 0)
    /\ UNCHANGED <<now, phase, metrics, served, sent>>

\* Faulty variant: the counter is incremented after every insert.
WorkerCounterAlways(outcome) == "heartbeat_notifications"

\* The counter wakeup increments after the insert_token_now that follows the
\* outcome of the send, or "none".
WorkerCounter(outcome) ==
    IF outcome = "ok_200" THEN "heartbeat_notifications" ELSE "none"

\* insert_token_now of wakeup, second half, and the counter that follows it.
WorkerPush(w) ==
    /\ Running(w)
    /\ w \in Workers
    /\ th[w].pc = "push"
    /\ InsertPush(th[w].tok, th[w].ts)
    /\ th' = NoteInsert([th EXCEPT ![w] = AtTop], th[w].tok)
    /\ metrics' = Count(metrics, WorkerCounter(th[w].out))
    /\ last' = Event("worker_pushed_" \o th[w].out, th[w].tok, th[w].ts, 0)
    /\ UNCHANGED <<now, phase, served, acked, sent>>

\* The pause of a minute is over.
WorkerResume(w) ==
    /\ Running(w)
    /\ th[w].pc = "pause"
    /\ now >= th[w].wake
    /\ th' = [th EXCEPT ![w] = AtTop]
    /\ last' = Step
    /\ UNCHANGED <<now, phase, metrics, served, acked, sent, schedVars>>

(***************************************************************************)
(* POST /register (register_device).                                       *)
(***************************************************************************)
\* Requests accepted since the first start.
Requests == served.requests

\* Faulty variant: the response is given without waiting for the flush.
RegisterAfterNoFlush(stage, ok) ==
    CASE ~ok -> "500"
      [] stage = "write" -> "push"
      [] OTHER -> "200"

\* The stage register_device moves to from `stage` when the call made there
\* succeeded (ok) or failed with `?`: insert_token_now (map write, then heap
\* push), flush, then the counter and the 200.
RegisterAfter(stage, ok) ==
    CASE ~ok -> "500"
      [] stage = "write" -> "push"
      [] stage = "push" -> "flush"
      [] OTHER -> "200"

\* The calls a request has completed so far.
Trace(done, stage) == IF done = "none" THEN stage ELSE done \o "," \o stage

\* The end of register_device when `next` is a response: the counter is
\* incremented before Ok(()) is returned, an error becomes a 500.
RegisterEnd(sv, next, t, ts, done) ==
    /\ metrics' = Count(metrics, IF next = "200" THEN "heartbeat_registrations" ELSE "none")
    /\ served' = Count(sv, IF next \in {"200", "500"} THEN "register_" \o next ELSE "none")
    /\ acked' = IF next = "200" /\ t \in DOMAIN hist' /\ hist'[t].last >= 0
                THEN acked \cup {t} ELSE acked
    /\ last' = Event("register_" \o next, t, ts, IF done = "write,push,flush" THEN 1 ELSE 0)

\* The handler after a stage: idle again after a response.
RegisterGoes(h, next, t, ts, done) ==
    IF next \in {"200", "500"} THEN Idle
    ELSE [Idle EXCEPT !.pc = next, !.tok = t, !.ts = ts, !.out = done]

\* A request arrives: the body is parsed as JSON, an openpgp: token is
\* decrypted, and insert_token_now writes the map.
RegisterStart(h, body) ==
    /\ Running(h)
    /\ th[h].pc = "idle"
    /\ Requests < MaxRequests
    /\ LET dec == Decrypted(body.token) IN
       IF body.json /\ dec.ok
       THEN /\ HeapRoom
            /\ \E ok \in BOOLEAN :
                /\ InsertWrite(dec.token, now, ok)
                /\ LET next == RegisterAfter("write", ok)
                       done == IF ok THEN "write" ELSE "none"
                   IN /\ th' = NoteInsert(
                                [th EXCEPT ![h] = RegisterGoes(h, next, dec.token, now, done)],
                                IF ok THEN dec.token ELSE NoToken)
                      /\ RegisterEnd(Count(served, "requests"), next, dec.token, now, done)
       ELSE /\ UNCHANGED <<th, schedVars>>
            /\ RegisterEnd(Count(served, "requests"), "500", body.token, now, "none")
    /\ UNCHANGED <<now, phase, sent>>

\* insert_token_now, second half: the push on the heap.
RegisterPush(h) ==
    /\ Running(h)
    /\ h \in Handlers
    /\ th[h].pc = "push"
    /\ InsertPush(th[h].tok, th[h].ts)
    /\ LET next == RegisterAfter("push", TRUE)
           done == Trace(th[h].out, "push")
       IN /\ th' = NoteInsert(
                    [th EXCEPT ![h] = RegisterGoes(h, next, th[h].tok, th[h].ts, done)],
                    th[h].tok)
          /\ RegisterEnd(served, next, th[h].tok, th[h].ts, done)
    /\ UNCHANGED <<now, phase, sent>>

\* schedule.flush().await
RegisterFlush(h) ==
    /\ Running(h)
    /\ th[h].pc = "flush"
    /\ \E ok \in BOOLEAN :
        /\ Flush(ok)
        /\ LET next == RegisterAfter("flush", ok)
               done == IF ok THEN Trace(th[h].out, "flush") ELSE th[h].out
           IN /\ th' = [th EXCEPT ![h] = RegisterGoes(h, next, th[h].tok, th[h].ts, done)]
              /\ RegisterEnd(served, next, th[h].tok, th[h].ts, done)
    /\ UNCHANGED <<now, phase, sent>>

(***************************************************************************)
(* POST /notify (notify_device).  The request is one step: the only effect *)
(* on the Schedule is the remove_token of notify_apns.                     *)
(***************************************************************************)
\* What the upstream push service answers: 200, another status that is no
\* error, 410, another client error, a server error, or no answer.
Upstream == {"200", "2xx", "410", "4xx", "5xx", "error"}

\* state.fcm_token(): a token, no key configured, or an error.
FcmAuth == {"token", "no_key", "error"}

\* notify_ubports and notify_fcm after the authorisation: the status.
HttpStatus(token, up) ==
    CASE ~TokenCharsOk(token) -> 410
      [] up = "error" -> 500
      [] up \in {"410", "4xx"} -> 410
      [] up = "5xx" -> 500
      [] OTHER -> 200

\* notify_apns: the status.
ApnsStatus(up) ==
    CASE up \in {"200", "2xx"} -> 200
      [] up = "410" -> 410
      [] OTHER -> 500

\* The status notify_device answers for the decrypted token.
NotifyStatus(parsed, auth, up) ==
    CASE parsed.kind = "error" -> 500
      [] parsed.kind = "ubports" -> HttpStatus(parsed.token, up)
      [] parsed.kind = "fcm" ->
            IF auth = "token" THEN HttpStatus(parsed.token, up) ELSE 500
      [] OTHER -> ApnsStatus(up)

\* The counter notify_device increments, or "none".
NotifyCounter(parsed, auth, up) ==
    CASE parsed.kind = "error" -> "none"
      [] parsed.kind = "ubports" ->
            IF HttpStatus(parsed.token, up) = 200 THEN "ubports_notifications" ELSE "none"
      [] parsed.kind = "fcm" ->
            IF auth = "token" /\ HttpStatus(parsed.token, up) = 200
            THEN "fcm_notifications" ELSE "none"
      [] OTHER -> IF up = "200" THEN "direct_notifications" ELSE "none"

StatusField(status) ==
    CASE status = 200 -> "notify_200"
      [] status = 410 -> "notify_410"
      [] OTHER -> "notify_500"

\* Whether notify_device gets as far as sending a request to the push
\* service of the token.
NotifyCalls(parsed, auth) ==
    CASE parsed.kind = "error" -> FALSE
      [] parsed.kind = "ubports" -> TokenCharsOk(parsed.token)
      [] parsed.kind = "fcm" -> auth = "token" /\ TokenCharsOk(parsed.token)
      [] OTHER -> TRUE

\* The record of a request to /notify: the token as received after the
\* decryption, what it parsed to, the answer of the push service if it was
\* asked, the status of the response, whether a Schedule write failed.
NotifyEvent(key, kind, part, auth, up, status, failed) ==
    [op |-> "notify", tok |-> key, ts |-> status, n |-> IF failed THEN 1 ELSE 0,
     kind |-> kind, part |-> part, auth |-> auth, up |-> up]

NotifyDevice(h, body, auth, up) ==
    /\ Running(h)
    /\ th[h].pc = "idle"
    /\ Requests < MaxRequests
    /\ LET dec == Decrypted(body)
           parsed == ParseToken(dec.token)
           status == NotifyStatus(parsed, auth, up)
           asked == IF NotifyCalls(parsed, auth) THEN up ELSE "none"
           used == IF parsed.kind = "fcm" THEN auth ELSE "none"
       IN IF ~dec.ok
          THEN /\ metrics' = Count(metrics, "openpgp_decryption_failures")
               /\ served' = Count(Count(served, "requests"), "notify_410")
               /\ last' = NotifyEvent(body, "undecryptable", NoToken, "none", "none",
                                      410, FALSE)
               /\ UNCHANGED <<schedVars, acked>>
          ELSE /\ metrics' = Count(metrics, NotifyCounter(parsed, auth, up))
               /\ served' = Count(Count(served, "requests"), StatusField(status))
               /\ IF parsed.kind \in {"apns_sandbox", "apns_production"} /\ up = "410"
                  THEN \E ok \in BOOLEAN :
                        /\ RemoveToken(parsed.token, ok)
                        /\ acked' = IF ok THEN acked \ {parsed.token} ELSE acked
                        /\ last' = NotifyEvent(dec.token, parsed.kind, parsed.token,
                                               used, asked, status, ~ok)
                  ELSE /\ last' = NotifyEvent(dec.token, parsed.kind, parsed.token,
                                              used, asked, status, FALSE)
                       /\ UNCHANGED <<schedVars, acked>>
    /\ UNCHANGED <<now, phase, th, sent>>

(***************************************************************************)
(* SpecSys: the running program: two worker loops, the HTTP handlers and   *)
(* the clock.                                                              *)
(***************************************************************************)
SysTokens == {TokFoo, TokFcm}

RegisterBodies ==
    {[json |-> TRUE, token |-> TokFoo],
     [json |-> TRUE, token |-> TokFcm],
     [json |-> TRUE, token |-> <<"openpgp:", "enc", " ", "F", " ">>],
     [json |-> TRUE, token |-> <<"openpgp:", "F">>],
     [json |-> FALSE, token |-> NoToken]}

NotifyBodies == {TokFoo}

\* How often the clock has advanced.
Ticks == ((now - ClockStart) % IdlePause) + ((now - ClockStart) \div IdlePause)

\* Time passes: a second, or the pause of an idle worker.
Tick(d) ==
    /\ Up
    /\ Ticks < MaxTicks
    /\ now' = now + d
    /\ last' = Step
    /\ UNCHANGED <<phase, th, metrics, served, acked, sent, schedVars>>

InitSys ==
    /\ now = ClockStart
    /\ db = EmptyDb
    /\ disk = EmptyDb
    /\ heap = EmptyBag
    /\ holder = "none"
    /\ phase = "open"
    /\ th = [x \in Workers \cup Handlers |-> IF x \in Workers THEN AtTop ELSE Idle]
    /\ faults = 0
    /\ metrics = NoMetrics
    /\ served = NoResponses
    /\ last = Step
    /\ hist = [t \in SysTokens |-> NoHist]
    /\ popped = {}
    /\ dirty = FALSE
    /\ acked = {}
    /\ sent = [t \in {} |-> 0]

NextSys ==
    \/ \E w \in Workers : WorkerPop(w)
    \/ \E w \in Workers : WorkerWake(w)
    \/ \E w \in Workers, outcome \in ApnsOutcomes : WorkerSent(w, outcome)
    \/ \E w \in Workers : WorkerPush(w)
    \/ \E w \in Workers : WorkerResume(w)
    \/ \E h \in Handlers, body \in RegisterBodies : RegisterStart(h, body)
    \/ \E h \in Handlers : RegisterPush(h)
    \/ \E h \in Handlers : RegisterFlush(h)
    \/ \E h \in Handlers, body \in NotifyBodies, auth \in FcmAuth, up \in Upstream :
            NotifyDevice(h, body, auth, up)
    \/ \E d \in {1, IdlePause} : Tick(d)

SpecSys == InitSys /\ [][NextSys]_vars

(***************************************************************************)
(* SpecCrash: one worker loop, the HTTP handlers, the clock, stable        *)
(* storage, and a crash of the process followed by its restart.            *)
(***************************************************************************)
\* The process dies at an arbitrary point of its first run; the map keeps
\* what was flushed.  The variables keep what the process was doing when it
\* died.
SysCrash ==
    /\ phase = "open"
    /\ phase' = "closed"
    /\ last' = Event("crash", NoToken, 0, 0)
    /\ UNCHANGED <<now, th, metrics, served, acked, sent, schedVars>>

\* The tokens a worker holds (popped, neither reinserted nor removed).
Held == {th[w].tok : w \in {x \in Workers \cap DOMAIN th : InFlight(x)}}

\* main: the Schedule is opened, the metrics are created, the workers and
\* the server are started.
SysRestart ==
    /\ phase = "closed"
    /\ ScheduleNew
    /\ phase' = "reopened"
    /\ th' = [x \in DOMAIN th |-> IF x \in Workers THEN AtTop ELSE Idle]
    /\ metrics' = NoMetrics
    /\ served' = [NoResponses EXCEPT !.requests = served.requests]
    /\ sent' = [t \in {} |-> 0]
    /\ last' = Event(IF db = disk THEN "restart" ELSE "restart_lost", NoToken, 0,
                     Cardinality(Held \cap acked))
    /\ UNCHANGED <<now, acked>>

InitCrash ==
    /\ now = ClockStart
    /\ db = EmptyDb
    /\ disk = EmptyDb
    /\ heap = EmptyBag
    /\ holder = "none"
    /\ phase = "open"
    /\ th = [x \in {"w1"} \cup Handlers |-> IF x \in Workers THEN AtTop ELSE Idle]
    /\ faults = 0
    /\ metrics = NoMetrics
    /\ served = NoResponses
    /\ last = Step
    /\ hist = [t \in SysTokens |-> NoHist]
    /\ popped = {}
    /\ dirty = FALSE
    /\ acked = {}
    /\ sent = [t \in {} |-> 0]

NextCrash ==
    \/ NextSys
    \/ BackgroundFlush
    \/ SysCrash
    \/ SysRestart

SpecCrash == InitCrash /\ [][NextCrash]_vars

(***************************************************************************)
(* SpecNotify: the HTTP handlers alone, with tokens of every kind.         *)
(***************************************************************************)
\* An APNS sandbox token, "sandbox:F".
TokSandbox == <<"sandbox:", "F">>

\* The tokens registered in SpecNotify.
NotifyTokens == {TokFoo, TokSandbox}

NotifyRegisterBodies ==
    {[json |-> TRUE, token |-> TokFoo],
     [json |-> TRUE, token |-> TokSandbox],
     [json |-> TRUE, token |-> <<"openpgp:", "F">>]}

\* Bodies of POST /notify: APNS tokens of both environments, FCM and UBports
\* tokens (well formed, with a character that is not allowed, with an empty
\* token part), a malformed FCM token, and openpgp: tokens that do and do
\* not decrypt.
AllNotifyBodies ==
    {TokFoo, TokSandbox,
     TokFcm, <<"fcm-", "p", ":", " ">>, <<"fcm-", "p", ":">>, <<"fcm-", "p">>,
     <<"ubports-", "B">>, <<"ubports-", " ">>, <<"ubports-">>,
     <<"openpgp:", "F">>, <<"openpgp:", "enc", " ", "sandbox:", "F", " ">>}

InitNotify ==
    /\ now = ClockStart
    /\ db = EmptyDb
    /\ disk = EmptyDb
    /\ heap = EmptyBag
    /\ holder = "none"
    /\ phase = "open"
    /\ th = [x \in Handlers |-> Idle]
    /\ faults = 0
    /\ metrics = NoMetrics
    /\ served = NoResponses
    /\ last = Step
    /\ hist = [t \in NotifyTokens |-> NoHist]
    /\ popped = {}
    /\ dirty = FALSE
    /\ acked = {}
    /\ sent = [t \in {} |-> 0]

NextNotify ==
    \/ \E h \in Handlers, body \in NotifyRegisterBodies : RegisterStart(h, body)
    \/ \E h \in Handlers : RegisterPush(h)
    \/ \E h \in Handlers : RegisterFlush(h)
    \/ \E h \in Handlers, body \in AllNotifyBodies, auth \in FcmAuth, up \in Upstream :
            NotifyDevice(h, body, auth, up)

SpecNotify == InitNotify /\ [][NextNotify]_vars

(***************************************************************************)
(* SpecWorker: one worker loop, the HTTP handlers and the clock, with      *)
(* registered tokens of every kind.                                        *)
(***************************************************************************)
\* A UBports token, "ubports-B".
TokUbports == <<"ubports-", "B">>

\* A malformed token: "fcm-p", an FCM token without ":".
TokMalformed == <<"fcm-", "p">>

WorkerTokens == {TokFoo, TokFcm, TokUbports, TokMalformed}

WorkerRegisterBodies == {[json |-> TRUE, token |-> t] : t \in WorkerTokens}

InitWorker ==
    /\ now = ClockStart
    /\ db = EmptyDb
    /\ disk = EmptyDb
    /\ heap = EmptyBag
    /\ holder = "none"
    /\ phase = "open"
    /\ th = [x \in {"w1"} \cup Handlers |-> IF x \in Workers THEN AtTop ELSE Idle]
    /\ faults = 0
    /\ metrics = NoMetrics
    /\ served = NoResponses
    /\ last = Step
    /\ hist = [t \in WorkerTokens |-> NoHist]
    /\ popped = {}
    /\ dirty = FALSE
    /\ acked = {}
    /\ sent = [t \in {} |-> 0]

NextWorker ==
    \/ \E w \in Workers : WorkerPop(w)
    \/ \E w \in Workers : WorkerWake(w)
    \/ \E w \in Workers, outcome \in ApnsOutcomes : WorkerSent(w, outcome)
    \/ \E w \in Workers : WorkerPush(w)
    \/ \E w \in Workers : WorkerResume(w)
    \/ \E h \in Handlers, body \in WorkerRegisterBodies : RegisterStart(h, body)
    \/ \E h \in Handlers : RegisterPush(h)
    \/ \E h \in Handlers : RegisterFlush(h)
    \/ \E h \in Handlers, auth \in FcmAuth, up \in Upstream :
            NotifyDevice(h, TokMalformed, auth, up)
    \/ \E d \in {1, IdlePause} : Tick(d)

SpecWorker == InitWorker /\ [][NextWorker]_vars

(***************************************************************************)
(* SpecDelay: the computation of the sleep in notifier::start, for popped  *)
(* timestamps before, at and after the current time and for several        *)
(* values of --interval.                                                   *)
(***************************************************************************)
\* How far the popped timestamps and the clock are spread, in seconds.
DelaySpan == 3

\* The largest --interval, in seconds.
MaxInterval == 3

DelayNows == ClockStart .. (ClockStart + DelaySpan)

DelayTimestamps == (ClockStart - DelaySpan - 1) .. (ClockStart + 2 * DelaySpan)

DelayIntervals == 0 .. MaxInterval

\* notifier::start from the popped entry to the sleep: worker w holds the
\* entry (ts, TokFoo) and works out how long to sleep with interval iv.
ComputeDelay(w, ts, iv) ==
    /\ Running(w)
    /\ LET delay == Delay(ts, now, iv) IN
        /\ th' = [th EXCEPT ![w] = [Idle EXCEPT !.pc = "sleep", !.tok = TokFoo,
                                                !.ts = ts, !.wake = now + delay]]
        /\ last' = [op |-> "delay", tok |-> TokFoo, ts |-> ts, n |-> now,
                    iv |-> iv, delay |-> delay]
    /\ UNCHANGED <<now, phase, metrics, served, acked, sent, schedVars>>

InitDelay ==
    /\ now \in DelayNows
    /\ db = EmptyDb
    /\ disk = EmptyDb
    /\ heap = EmptyBag
    /\ holder = "none"
    /\ phase = "open"
    /\ th = [x \in {"w1"} |-> AtTop]
    /\ faults = 0
    /\ metrics = NoMetrics
    /\ served = NoResponses
    /\ last = Step
    /\ hist = [t \in {TokFoo} |-> NoHist]
    /\ popped = {}
    /\ dirty = FALSE
    /\ acked = {}
    /\ sent = [t \in {} |-> 0]

NextDelay == \E ts \in DelayTimestamps, iv \in DelayIntervals : ComputeDelay("w1", ts, iv)

SpecDelay == InitDelay /\ [][NextDelay]_vars

(***************************************************************************)
(* SpecTest: one caller of the Schedule API with the timestamps of the     *)
(* unit tests (10, 20, 30).                                                *)
(***************************************************************************)
TestTimestamps == {10, 20, 30}

InitTest ==
    /\ now = ClockStart
    /\ db = EmptyDb
    /\ disk = EmptyDb
    /\ heap = EmptyBag
    /\ holder = "none"
    /\ phase = "open"
    /\ th = [c \in {"c1"} |-> Idle]
    /\ faults = 0
    /\ metrics = NoMetrics
    /\ served = NoResponses
    /\ last = Step
    /\ hist = [t \in ApiTokens |-> NoHist]
    /\ popped = {}
    /\ dirty = FALSE
    /\ acked = {}
    /\ sent = [t \in {} |-> 0]

NextTest ==
    \/ \E c \in DOMAIN th, t \in ApiTokens, ts \in TestTimestamps : ApiInsert(c, t, ts)
    \/ \E c \in DOMAIN th : ApiPush(c)
    \/ \E c \in DOMAIN th, t \in ApiTokens : ApiRemove(c, t)
    \/ \E c \in DOMAIN th : ApiPop(c)
    \/ \E c \in DOMAIN th : ApiCount(c)

SpecTest == InitTest /\ [][NextTest]_vars

(***************************************************************************)
(* SpecLive: one worker loop and the HTTP handlers, running for ever.      *)
(* There are no storage errors and APNS answers every send of a worker     *)
(* with 200.  Time is kept relative to the clock: the behaviour of the     *)
(* program depends only on the order of the stored timestamps, on which of *)
(* them are equal, and on how far each is behind the clock up to one       *)
(* interval (Delay), so a second that passes moves every stored time one   *)
(* second back instead of moving the clock forward, and the times that are *)
(* a whole interval or more behind are moved together, keeping their       *)
(* order.                                                                  *)
(***************************************************************************)
LiveTokens == {TokFoo, TokSandbox}

LiveRegisterBodies == {[json |-> TRUE, token |-> t] : t \in LiveTokens}

\* The timestamps held by the map, the stable storage, the heap and the
\* threads that carry an entry.
LiveTimes ==
    {StoredTimestamp(db[k]) : k \in DOMAIN db}
        \cup {StoredTimestamp(disk[k]) : k \in DOMAIN disk}
        \cup {e[1] : e \in BagToSet(heap)}
        \cup {th[x].ts : x \in {y \in DOMAIN th : th[y].tok # NoToken}}

\* The timestamps that are an interval or more behind the clock once
\* another second has passed.
OverdueTimes == {v \in LiveTimes : v - 1 <= now - Interval}

\* Timestamp v, relative to the clock, after another second.
Later(v) ==
    IF v - 1 > now - Interval THEN v - 1
    ELSE now - Interval - Cardinality({u \in OverdueTimes : u > v})

\* Times the properties use and the program does not: after another second
\* they are only known to be in the past.
LaterNote(v) == IF v < 0 THEN v ELSE now - Interval - 1

LaterDb(m) == [k \in DOMAIN m |-> ToBeBytes(Later(StoredTimestamp(m[k])))]

LaterHeap(h) ==
    [e \in {<<Later(f[1]), f[2]>> : f \in BagToSet(h)} |->
        h[CHOOSE f \in BagToSet(h) : <<Later(f[1]), f[2]>> = e]]

\* A second passes (SystemTime::now and the tokio sleeps).
LiveTick ==
    /\ Up
    /\ db' = LaterDb(db)
    /\ disk' = LaterDb(disk)
    /\ heap' = LaterHeap(heap)
    /\ th' = [x \in DOMAIN th |->
                [th[x] EXCEPT !.ts = IF th[x].tok # NoToken THEN Later(@) ELSE @,
                              !.wake = IF @ > now THEN @ - 1 ELSE @]]
    /\ sent' = [t \in DOMAIN sent |-> LaterNote(sent[t])]
    /\ hist' = [t \in DOMAIN hist |->
                    [last |-> LaterNote(hist[t].last), older |-> LaterNote(hist[t].older)]]
    /\ last' = Step
    /\ UNCHANGED <<now, holder, phase, faults, metrics, served, popped, dirty, acked>>

\* No storage error: the errors the model allows count as spent.
InitLive ==
    /\ now = ClockStart
    /\ db = EmptyDb
    /\ disk = EmptyDb
    /\ heap = EmptyBag
    /\ holder = "none"
    /\ phase = "open"
    /\ th = [x \in {"w1"} \cup Handlers |-> IF x \in Workers THEN AtTop ELSE Idle]
    /\ faults = MaxFaults
    /\ metrics = NoMetrics
    /\ served = NoResponses
    /\ last = Step
    /\ hist = [t \in LiveTokens |-> NoHist]
    /\ popped = {}
    /\ dirty = FALSE
    /\ acked = {}
    /\ sent = [t \in {} |-> 0]

NextLive ==
    \/ \E w \in Workers : WorkerPop(w)
    \/ \E w \in Workers : WorkerWake(w)
    \/ \E w \in Workers : WorkerSent(w, "ok_200")
    \/ \E w \in Workers : WorkerPush(w)
    \/ \E w \in Workers : WorkerResume(w)
    \/ \E h \in Handlers, body \in LiveRegisterBodies : RegisterStart(h, body)
    \/ \E h \in Handlers : RegisterPush(h)
    \/ \E h \in Handlers : RegisterFlush(h)
    \/ \E h \in Handlers, body \in LiveTokens, up \in {"200", "410"} :
            NotifyDevice(h, body, "token", up)
    \/ LiveTick

\* One iteration step of notifier::start for worker w, APNS answering 200.
WorkerLoop(w) ==
    \/ WorkerPop(w)
    \/ WorkerWake(w)
    \/ WorkerSent(w, "ok_200")
    \/ WorkerPush(w)
    \/ WorkerResume(w)

\* The step is a LiveTick step: of the steps of NextLive only LiveTick
\* leaves no record in `last` and every thread where it is.
ClockAdvances == last' = Step /\ \A x \in DOMAIN th : th'[x].pc = th[x].pc

\* What is left of register_device once insert_token_now has written the
\* map: the push on the heap and the flush.
RegisterRest(h) == RegisterPush(h) \/ RegisterFlush(h)

\* The worker loop and a request that has started are tokio tasks and are
\* scheduled again and again, and time does not stop.
LiveFairness ==
    /\ WF_vars(WorkerLoop("w1"))
    /\ WF_vars(RegisterRest("h1"))
    /\ []<><<ClockAdvances>>_vars

SpecLive == InitLive /\ [][NextLive]_vars /\ LiveFairness

(***************************************************************************)
(* Properties of the Schedule.  Each pop step records in `last` the entry  *)
(* it took off the heap; the step leaves the map as it was at the lookup.  *)
(***************************************************************************)

\* C1: whenever pop returns Some((ts, t)), t is a key of the map at pop's
\* lookup and the stored value is the 8-byte big-endian encoding of ts; if
\* the latest operation on t was insert(t, ts'), with no insert or remove of
\* t after it, the returned ts is ts'.
C1_PopReturnsStored ==
    last.op = "pop_some" =>
        /\ last.tok \in DOMAIN db
        /\ db[last.tok] = ToBeBytes(last.ts)
        /\ Len(db[last.tok]) = 8
        /\ HistLast(last.tok) >= 0 => last.ts = HistLast(last.tok)

\* A pop returns a token whose timestamp needs two bytes, while another
\* entry is still on the heap.
C1_Witness ==
    /\ last.op = "pop_some"
    /\ last.ts = HistLast(last.tok)
    /\ last.ts >= 256
    /\ last.n >= 2

\* C3: after insert(t, a); insert(t, b) with a < b and no remove of t, a pop
\* that returns t returns b and never a; the entry (a, t) is dropped from the
\* heap by the pop that meets it; a pop drops only entries that do not match
\* the map, so entries of other tokens are not affected.
C3_ReinsertSupersedes ==
    /\ (last.op = "pop_some" /\ HistOlder(last.tok) >= 0) =>
            /\ last.ts = HistLast(last.tok)
            /\ last.ts > HistOlder(last.tok)
    /\ (last.op \in {"pop_some", "pop_discard"} /\ last.ts = HistOlder(last.tok)) =>
            /\ last.op = "pop_discard"
            /\ HeapLen(heap) = last.n - 1
    /\ last.op = "pop_discard" => ~EntryValid(db, <<last.ts, last.tok>>)

\* The older entry (a, t) was met and dropped, and the entry (b, t) is still
\* to be popped.
C3_Witness ==
    /\ last.op = "pop_discard"
    /\ last.ts = HistOlder(last.tok)
    /\ BagIn(<<HistLast(last.tok), last.tok>>, heap)

\* C4: after remove(t) no pop returns t until t is inserted again.
C4_RemovedNotPopped ==
    last.op = "pop_some" => HistLast(last.tok) # -2

\* A pop drops an entry of a removed token while another entry of that token
\* is still on the heap.
C4_Witness ==
    /\ last.op = "pop_discard"
    /\ HistLast(last.tok) = -2
    /\ \E e \in BagToSet(heap) : e[2] = last.tok

\* C5: a pop that returns Some((ts, t)) returns the oldest valid entry: no
\* valid entry left on the heap has a smaller timestamp; a pop that returns
\* None leaves the heap empty, so no valid entry exists.
C5_PopReturnsOldest ==
    /\ last.op = "pop_some" =>
            \A e \in BagToSet(heap) : EntryValid(db, e) => last.ts <= e[1]
    /\ last.op = "pop_none" => HeapLen(heap) = 0

\* A pop returned an entry while a valid entry with a larger timestamp stays
\* on the heap.
C5_Witness ==
    /\ last.op = "pop_some"
    /\ \E e \in BagToSet(heap) : EntryValid(db, e) /\ e[1] > last.ts

\* Neither an insert between its two halves nor a pop in its loop.
Quiescent ==
    /\ phase = "open"
    /\ holder = "none"
    /\ \A x \in DOMAIN th : th[x].pc = "idle"

\* C2 as stated: after every Schedule operation the heap size is at least
\* the number of keys of the map.
C2_CountAtLeastKeys ==
    Quiescent => TokenCount >= Cardinality(DOMAIN db)

\* C2 as amended: after every Schedule operation the heap size is at least
\* the number of keys of the map whose entry no pop has taken off the heap
\* (returned, or lost when the map read of the pop failed) since the key was
\* last inserted.
C2_CountAtLeastPendingKeys ==
    Quiescent => TokenCount >= Cardinality((DOMAIN db) \ popped)

\* A popped token is still a key of the map: the heap is smaller than the
\* map, and as large as the number of keys not popped.
C2_Witness ==
    /\ Quiescent
    /\ last.op = "pop_some"
    /\ TokenCount < Cardinality(DOMAIN db)
    /\ TokenCount = Cardinality((DOMAIN db) \ popped)
    /\ TokenCount >= 1

\* Exactly one heap entry per key of map m, carrying the stored timestamp.
OneEntryPerKey(h, m) ==
    /\ \A e \in BagToSet(h) :
            /\ CopiesIn(e, h) = 1
            /\ e[2] \in DOMAIN m
            /\ ToBeBytes(e[1]) = m[e[2]]
    /\ \A k \in DOMAIN m : \E e \in BagToSet(h) : e[2] = k
    /\ HeapLen(h) = Cardinality(DOMAIN m)

\* C6: when the Schedule is closed after a final flush, stable storage holds
\* the map as it was, so the reopened map is identical; the heap rebuilt by
\* any reopen has exactly one entry per key with the stored timestamp, and
\* count() equals the number of keys.
C6_ReopenRoundTrip ==
    /\ (phase = "closed" /\ last.op = "close") => disk = db
    /\ (phase = "open" /\ last.op \in {"open_after_close", "open_after_close_dirty",
                                        "open_after_crash"}) =>
            /\ db = disk
            /\ OneEntryPerKey(heap, db)
            /\ TokenCount = Cardinality(DOMAIN db)

\* A reopen after a flushed close: the heap had more entries than the map
\* has keys before the close, and two keys with different timestamps remain.
C6_Witness ==
    /\ phase = "open"
    /\ last.op = "open_after_close"
    /\ Cardinality(DOMAIN db) = 2
    /\ last.n > 2
    /\ \E e, f \in BagToSet(heap) : e[1] = 255 /\ f[1] = 256

(***************************************************************************)
(* Properties of the running program.                                      *)
(***************************************************************************)
\* Token t is a key of map m and the pops on heap h return it with the
\* timestamp m stores for it.
Returned(t, h, m) ==
    /\ t \in DOMAIN m
    /\ \E i \in 1..Len(PopAll(h, m)) : PopAll(h, m)[i] = <<StoredTimestamp(m[t]), t>>

\* The step that restarts the crashed process.
Reopens == phase = "closed" /\ phase' = "reopened"

\* C7 as stated: after a crash and reopen, every token registered with a 200
\* and not removed since is a key of the map and is returned by the pops,
\* and so is every token a worker held (popped, neither reinserted nor
\* removed) when the process died, with its stored timestamp.
C7_CrashKeepsRegisteredAndHeld ==
    [][Reopens =>
        /\ \A t \in acked : Returned(t, heap', db')
        /\ \A t \in Held : Returned(t, heap', db')]_vars

\* C7, amended: a token registered with a 200 and not removed since the
\* insert of that registration is on stable storage from then on, so that a
\* crash at any later point cannot lose it; after the crash and the reopen
\* it is a key of the map and the pops return it with its stored timestamp.
\* A token a worker held when the process died is returned again after the
\* reopen, with its stored timestamp, when it is on stable storage, as every
\* registered token is.
C7_CrashKeepsRegistered ==
    [][/\ acked' \subseteq DOMAIN disk'
       /\ Reopens =>
            /\ \A t \in acked : Returned(t, heap', db')
            /\ \A t \in Held \cap DOMAIN disk :
                    Returned(t, heap', db') /\ db'[t] = disk[t]]_vars

\* The process restarted after a crash that lost unflushed writes of the
\* map, while the worker held a registered token.
C7_Witness ==
    /\ last.op = "restart_lost"
    /\ last.n > 0
    /\ acked # {}
    /\ HeapLen(heap) > 0

\* C8: two workers are never in flight on the same token at the same time
\* unless an insert of that token happened after the first of them popped
\* (stated for the runs in which no storage operation fails).
C8_OneWorkerPerToken ==
    \A w1 \in Workers \cap DOMAIN th, w2 \in Workers \cap DOMAIN th :
        (faults = 0 /\ w1 # w2 /\ InFlight(w1) /\ InFlight(w2)
                    /\ th[w1].tok = th[w2].tok) =>
            (th[w1].out = "reinserted" \/ th[w2].out = "reinserted")

\* C9: two consecutive heartbeat sends for the same token are at least one
\* interval apart (stated for the runs in which no storage operation fails).
C9_SendsOneIntervalApart ==
    (faults = 0 /\ last.op = "send" /\ last.ts >= 0) => last.n - last.ts >= Interval

\* C10: register_device answers 200 only after the map write with the
\* current time, the push of that entry on the heap and the flush, in this
\* order; heartbeat_registrations counts exactly the 200 responses.
C10_RegisterFlushedBefore200 ==
    /\ metrics.heartbeat_registrations = served.register_200
    /\ last.op = "register_push" =>
            /\ last.tok \in DOMAIN db
            /\ db[last.tok] = ToBeBytes(now)
            /\ last.ts = now
    /\ last.op = "register_flush" => BagIn(<<last.ts, last.tok>>, heap)
    /\ last.op = "register_200" =>
            /\ last.n = 1
            /\ disk = db

\* A registration is answered 200 after an earlier one was answered 500.
C10_Witness ==
    /\ last.op = "register_200"
    /\ served.register_500 = 1
    /\ metrics.heartbeat_registrations = 1
    /\ last.tok \in DOMAIN disk

(***************************************************************************)
(* Properties of POST /notify.  A step that handles a request to /notify   *)
(* leaves its record in `last`.                                            *)
(***************************************************************************)
ApnsKinds == {"apns_sandbox", "apns_production"}

\* C11: when APNS answers a /notify for an APNS token of either environment
\* with ResponseError 410 (and no storage operation failed), the response
\* is 410, the map no longer has the key of the token as received after the
\* decryption, and direct_notifications is as before.
C11_Gone410RemovesKey ==
    [][(last'.op = "notify" /\ last'.kind \in ApnsKinds /\ last'.up = "410"
                            /\ faults' = 0) =>
            /\ last'.ts = 410
            /\ last'.tok \notin DOMAIN db'
            /\ metrics'.direct_notifications = metrics.direct_notifications]_vars

\* C12: a /notify for an APNS token is answered 200 exactly when APNS
\* answered 200, direct_notifications is incremented exactly then, and every
\* APNS outcome other than 200 and ResponseError 410 is answered 500.
C12_Apns200OnlyOnStatus200 ==
    [][(last'.op = "notify" /\ last'.kind \in ApnsKinds) =>
            /\ (last'.ts = 200) <=> (last'.up = "200")
            /\ metrics'.direct_notifications =
                    metrics.direct_notifications + (IF last'.up = "200" THEN 1 ELSE 0)
            /\ last'.up \notin {"200", "410"} => last'.ts = 500]_vars

\* C13: when an openpgp: token does not decrypt, /notify answers 410 and
\* increments openpgp_decryption_failures by one, /register answers 500;
\* no push service is asked, map, heap and stable storage stay as they are,
\* and no other counter changes.
C13_DecryptionFailure ==
    [][/\ (last'.op = "notify" /\ last'.kind = "undecryptable") =>
            /\ last'.ts = 410
            /\ served'.notify_410 = served.notify_410 + 1
            /\ last'.up = "none"
            /\ metrics'.openpgp_decryption_failures =
                    metrics.openpgp_decryption_failures + 1
            /\ \A f \in DOMAIN metrics \ {"openpgp_decryption_failures"} :
                    metrics'[f] = metrics[f]
            /\ db' = db /\ heap' = heap /\ disk' = disk
       /\ (last'.op \in {"register_200", "register_500", "register_push"}
                /\ ~Decrypted(last'.tok).ok) =>
            /\ last'.op = "register_500"
            /\ served'.register_500 = served.register_500 + 1
            /\ metrics' = metrics
            /\ db' = db /\ heap' = heap /\ disk' = disk]_vars

\* A /notify with a token that does not decrypt was answered after a
\* /register of a token was stored and answered 200.
C13_Witness ==
    /\ last.op = "notify"
    /\ last.kind = "undecryptable"
    /\ metrics.openpgp_decryption_failures = 1
    /\ served.register_200 = 1
    /\ HeapLen(heap) = 1

\* The token part of an FCM or UBports token matches [A-Za-z0-9_:-]+.
PartMatches(part) == Len(part) > 0 /\ TokenCharsOk(part)

\* C14: a /notify for an FCM or UBports token whose token part does not
\* match [A-Za-z0-9_:-]+ is answered 410, no request is sent to the push
\* service and no counter changes.
C14_BadTokenPartIs410 ==
    [][(last'.op = "notify" /\ last'.kind \in {"fcm", "ubports"}
                            /\ ~PartMatches(last'.part)) =>
            /\ last'.ts = 410
            /\ last'.up = "none"
            /\ metrics' = metrics]_vars

\* C15: a handler whose Schedule write (insert, remove, flush) failed
\* answers 500, never 200 or 410.
C15_WriteErrorIs500 ==
    /\ (last.op = "notify" /\ last.n = 1) => last.ts = 500
    /\ (last.op \in {"register_200", "register_500"} /\ last.n = 0) =>
            last.op = "register_500"

(***************************************************************************)
(* Properties of the notifier loop.  The steps of wakeup leave their       *)
(* record in `last`: worker_insert_<outcome> (the map write of             *)
(* insert_token_now), worker_pushed_<outcome> (its heap push and the       *)
(* counter), worker_bail, worker_drop, worker_remove, worker_parse_error.  *)
(***************************************************************************)
\* C16: after APNS answered a worker's send with 200, insert_token_now
\* stores the current time for the token in the map and pushes the entry
\* (now, token), which is valid unless the map was written meanwhile;
\* heartbeat_notifications is incremented by one then and in no other step.
C16_Sent200Reinserts ==
    [][/\ (last'.op = "worker_insert_ok_200" /\ last'.n = 1) =>
            /\ last'.tok \in DOMAIN db'
            /\ db'[last'.tok] = ToBeBytes(now')
            /\ last'.ts = now'
       /\ last'.op = "worker_pushed_ok_200" =>
            /\ BagIn(<<last'.ts, last'.tok>>, heap')
            /\ hist'[last'.tok].last = last'.ts =>
                    EntryValid(db', <<last'.ts, last'.tok>>)
            /\ metrics'.heartbeat_notifications = metrics.heartbeat_notifications + 1
       /\ last'.op # "worker_pushed_ok_200" =>
            metrics'.heartbeat_notifications = metrics.heartbeat_notifications]_vars

\* A worker has reinserted a registered token after a 200, one interval or
\* more after the registration; the entry it pushed is valid.
C16_Witness ==
    /\ last.op = "worker_pushed_ok_200"
    /\ last.ts > ClockStart
    /\ EntryValid(db, <<last.ts, last.tok>>)
    /\ metrics.heartbeat_notifications = 1
    /\ metrics.heartbeat_registrations >= 1

\* C17: after a ResponseError of APNS the worker removes the token from the
\* map, and the token stays out of the map, so that no pop returns it, until
\* it is registered again (stated for the runs without storage failure).
C17_DroppedUntilRegistered ==
    [][faults' = 0 =>
        /\ last'.op = "worker_drop" => last'.tok \notin DOMAIN db'
        /\ \A t \in DOMAIN hist :
                (hist[t].last = -3 /\ hist'[t].last >= 0) =>
                    last'.op = "register_push"]_vars

\* C18: after a send that failed with a transport error or with a status
\* other than 200 that is no ResponseError, the worker has written the
\* current time for the token into the map (stated for the runs without
\* storage failure).
C18_TransientFailureReinserts ==
    (faults = 0 /\ last.op \in {"worker_insert_error", "worker_bail"}) =>
        /\ last.tok \in DOMAIN db
        /\ db[last.tok] = ToBeBytes(now)

\* A token of the form fcm-<package>:<token> or ubports-<token>.
NonApns(t) ==
    /\ Len(t) > 0
    /\ \/ Head(t) = "ubports-"
       \/ Head(t) = "fcm-" /\ \E i \in 2..Len(t) : t[i] = ":"

\* C19: a registered FCM or UBports token is written to the map like any
\* other; the worker that pops it removes it from the map when it wakes up,
\* sends nothing to APNS for it and never inserts it.
C19_NonApnsRemovedByWorker ==
    [][/\ (last'.op = "register_push" /\ NonApns(last'.tok)) =>
            /\ last'.tok \in DOMAIN db'
            /\ db'[last'.tok] = ToBeBytes(now')
       /\ (last'.op = "worker_remove" /\ last'.n = 1) =>
            /\ NonApns(last'.tok)
            /\ last'.tok \notin DOMAIN db'
            /\ heap' = heap
            /\ sent' = sent
       /\ \A w \in Workers \cap DOMAIN th :
            (th[w].pc = "sleep" /\ th'[w].pc # "sleep" /\ NonApns(th[w].tok)) =>
                last'.op = "worker_remove"
       /\ \A w \in Workers \cap DOMAIN th :
            th'[w].pc \in {"send", "push"} => ~NonApns(th'[w].tok)]_vars

\* The worker removed a registered UBports token when its interval was over.
C19_Witness ==
    /\ last.op = "worker_remove"
    /\ last.n = 1
    /\ last.tok = TokUbports
    /\ served.register_200 >= 1
    /\ now >= ClockStart + Interval
    /\ HistLast(TokUbports) = -2

\* C20: after the worker has handled a popped token that does not parse,
\* the token is no key of the map (stated for the runs without storage
\* failure); a /notify with such a token is answered 500.
C20_MalformedDropped ==
    /\ (faults = 0 /\ last.op = "worker_parse_error") => last.tok \notin DOMAIN db
    /\ (last.op = "notify" /\ last.kind = "error") => last.ts = 500

\* C21: a storage error in the notifier loop never ends a worker: every
\* worker that was started is still in its loop, and the worker that just hit
\* a storage error in pop pauses for a minute.
C21_WorkersNeverStop ==
    /\ \A w \in Workers \cap DOMAIN th : th[w].pc # "dead"
    /\ last.op = "pop_err" =>
            \E w \in Workers \cap DOMAIN th :
                th[w].pc = "pause" /\ th[w].wake = now + IdlePause

\* C22: the sleep for a popped entry (ts, token) at time now is
\* max(0, min(ts, now) + interval - now): between 0 and interval, equal to
\* interval when ts >= now, to ts + interval - now when
\* now - interval < ts < now, and 0 when ts <= now - interval.
C22_DelayFormula ==
    last.op = "delay" =>
        LET ts == last.ts
            n == last.n
            iv == last.iv
            d == last.delay
            least == IF ts < n THEN ts ELSE n
            due == least + iv - n
        IN  /\ d = IF due > 0 THEN due ELSE 0
            /\ 0 <= d /\ d <= iv
            /\ ts >= n => d = iv
            /\ (n - iv < ts /\ ts < n) => d = ts + iv - n
            /\ ts <= n - iv => d = 0
            /\ \E w \in Workers \cap DOMAIN th :
                    th[w].pc = "sleep" /\ th[w].wake = n + d

\* A timestamp in the past and not yet due: the sleep is the remainder.
C22_Witness ==
    /\ last.op = "delay"
    /\ last.ts < last.n
    /\ 0 < last.delay
    /\ last.delay < last.iv

\* C23: a popped token that is overdue (timestamp + interval < now) is woken
\* one interval from now: the worker that popped it sleeps a full interval
\* before it sends.
C23_OverdueWaitsInterval ==
    (last.op = "pop_some" /\ last.ts + Interval < now) =>
        \A w \in Workers \cap DOMAIN th :
            (th[w].pc = "sleep" /\ th[w].tok = last.tok /\ th[w].ts = last.ts) =>
                th[w].wake = now + Interval

\* The map after insert(foo, 10), insert(bar, 20), insert(foo, 30).
ScenarioDb == DbInsert(DbInsert(EmptyDb, TokBar, ToBeBytes(20)), TokFoo, ToBeBytes(30))

\* The Schedule holds the map of the scenario and the heap entries es, and
\* no operation is in progress.
Scenario(es) ==
    /\ db = ScenarioDb
    /\ heap = SetToBag(es)
    /\ holder = "none"
    /\ \A c \in DOMAIN th : th[c].pc = "idle"

\* The entries on the heap after the three inserts of the scenario.
ScenarioHeap == {<<10, TokFoo>>, <<20, TokBar>>, <<30, TokFoo>>}

\* The first pop of the scenario has discarded (10, foo), holds the heap and
\* looks at the next entry.
ScenarioDiscarded ==
    /\ db = ScenarioDb
    /\ heap = SetToBag(ScenarioHeap \ {<<10, TokFoo>>})
    /\ holder # "none"

\* The step is the last iteration of a call of pop, without storage error.
PopReturns == last'.op \in {"pop_some", "pop_none"} /\ faults' = faults

\* C24, as stated: from foo@10, bar@20 and foo reinserted at 30, three pops
\* return (20, bar), (30, foo), None, and count() is 3 before the first pop
\* and 2, 1, 0 after the first, second and third pop.
C24_ScenarioCounts ==
    [][/\ (Scenario(ScenarioHeap) /\ last'.op = "count") => last'.n = 3
       /\ (ScenarioDiscarded /\ PopReturns) =>
            /\ last'.op = "pop_some" /\ last'.ts = 20 /\ last'.tok = TokBar
            /\ TokenCount' = 2
       /\ (Scenario({<<30, TokFoo>>}) /\ PopReturns) =>
            /\ last'.op = "pop_some" /\ last'.ts = 30 /\ last'.tok = TokFoo
            /\ TokenCount' = 1
       /\ (Scenario({}) /\ PopReturns) =>
            /\ last'.op = "pop_none"
            /\ TokenCount' = 0]_vars

\* C24, amended: the pops return (20, bar), (30, foo), None; the first pop
\* discards the stale (10, foo) on its way, so that count() is 3 before the
\* first pop and 1, 0, 0 after the first, second and third pop.
C24_ScenarioPops ==
    [][/\ (Scenario(ScenarioHeap) /\ last'.op = "count") => last'.n = 3
       /\ (Scenario(ScenarioHeap) /\ last'.op \in {"pop_some", "pop_none", "pop_discard"}
                /\ faults' = faults) =>
            /\ last' = Event("pop_discard", TokFoo, 10, 3)
            /\ ScenarioDiscarded'
       /\ (ScenarioDiscarded /\ PopReturns) =>
            /\ last'.op = "pop_some" /\ last'.ts = 20 /\ last'.tok = TokBar
            /\ TokenCount' = 1
            /\ Scenario({<<30, TokFoo>>})'
       /\ (Scenario({<<30, TokFoo>>}) /\ last'.op = "count") => last'.n = 1
       /\ (Scenario({<<30, TokFoo>>}) /\ PopReturns) =>
            /\ last'.op = "pop_some" /\ last'.ts = 30 /\ last'.tok = TokFoo
            /\ TokenCount' = 0
            /\ Scenario({})'
       /\ (Scenario({}) /\ last'.op = "count") => last'.n = 0
       /\ (Scenario({}) /\ PopReturns) =>
            /\ last'.op = "pop_none"
            /\ TokenCount' = 0]_vars

\* The second pop of the scenario has returned (30, foo): foo was inserted
\* at 10 and again at 30, both tokens have been popped, the heap is empty.
C24_Witness ==
    /\ Scenario({})
    /\ last = Event("pop_some", TokFoo, 30, 1)
    /\ HistLast(TokFoo) = 30
    /\ HistOlder(TokFoo) = 10
    /\ HistLast(TokBar) = 20
    /\ popped = {TokFoo, TokBar}
    /\ faults = 0

\* The heap holds an entry of token t with the timestamp the map stores.
HasValidEntry(t) ==
    \E e \in BagToSet(heap) : e[2] = t /\ EntryValid(db, e)

\* C25: whenever no insert is between its map write and its heap push, every
\* key of the map has a heap entry with the stored timestamp or has been
\* returned by a pop since the value was written; a pop that ended in a
\* storage error has returned nothing.
C25_StoredTokenReachable ==
    [][Pushing' = {} =>
        \A t \in DOMAIN db' :
            \/ HasValidEntry(t)'
            \/ /\ t \in popped'
               /\ ~(last'.op = "pop_err" /\ last'.tok = t /\ t \notin popped)]_vars

\* C26: POST /notify for token X (the token after decryption) leaves the map
\* entry of every key other than X as it was, and for an FCM or UBports
\* token it leaves map and heap unchanged.
C26_NotifyTouchesOwnTokenOnly ==
    [][last'.op = "notify" =>
        /\ \A y \in (DOMAIN db) \cup (DOMAIN db') :
                y # last'.tok =>
                    /\ y \in DOMAIN db
                    /\ y \in DOMAIN db'
                    /\ db'[y] = db[y]
        /\ last'.kind \in {"fcm", "ubports"} => (db' = db /\ heap' = heap)]_vars

\* POST /register for the token of worker w has just responded 200 while w
\* waits for the outcome of its send for that token.
RegisteredInFlight(w) ==
    /\ last.op = "register_200"
    /\ th[w].pc = "send"
    /\ th[w].tok = last.tok

\* C27: a registration that responds 200 while a worker is in flight for the
\* same token is not lost: when the worker then handles the outcome of its
\* send, whatever it is, the token stays a key of the map, and when the
\* worker is through it has a valid heap entry (stated for the runs without
\* storage failure).
C27_RegistrationInFlightKept ==
    [][\A w \in Workers \cap DOMAIN th :
        (faults' = 0 /\ RegisteredInFlight(w) /\ th'[w].pc # "send") =>
            /\ last.tok \in DOMAIN db'
            /\ th'[w].pc \in {"top", "pause"} => HasValidEntry(last.tok)']_vars

\* A worker has just sent a heartbeat notification for token t.
HeartbeatSent(t) == last.op = "send" /\ last.tok = t

\* C28: with fair worker loops, no storage errors and APNS answering 200,
\* every APNS token that is registered (POST /register responded 200) and
\* not removed from some point on is sent a heartbeat again and again.
C28_HeartbeatsForever ==
    \A t \in LiveTokens : (<>[](t \in acked)) => []<>HeartbeatSent(t)

\* Both tokens are registered, and one of them is sent its second heartbeat
\* or a later one.
C28_Witness ==
    /\ acked = LiveTokens
    /\ last.op = "send"
    /\ last.ts >= 0
    /\ metrics.heartbeat_notifications >= 1

====
